---- MODULE Spec2Model ----
(***************************************************************************)
(* Grid cropper: the padding detector worker, the crop worker and the      *)
(* GridTool component that drives both through postMessage; and its        *)
(* sibling SingleCropTool with its crop box.                               *)
(*                                                                         *)
(* Numbers.  JavaScript numbers are modelled as exact rationals <<n, d>>   *)
(* in lowest terms with d > 0 (no floating point rounding error), except   *)
(* in the detector's scaling, where an integer conversion turns the        *)
(* rounding error of a double into a whole pixel.                          *)
(***************************************************************************)
EXTENDS Integers, Naturals, Sequences, FiniteSets, TLC

\* ------------------------------------------------------------------ bounds
\* user events per run of GridTool
MaxUserActions == 3
\* a user event is taken only if it leaves at most MaxBacklog uploads and
\* requests under way
MaxBacklog == 2
\* how often getContext('2d') may fail to give a context
MaxContextFailures == 1
\* the grid sizes a user picks are 1..MaxGridChoice, the presets offered
\* are the first MaxPresets of the list
MaxGridChoice == 2
MaxPresets == 2
\* crop requests of the worker-only specification: cols, rows in 1..MaxGrid,
\* padding in 0..MaxCropPadding (and two large ones)
MaxGrid == 3
MaxCropPadding == 4
\* pictures given to the detector: gutters and borders up to MaxTileGutter
MaxTileGutter == 3
\* events of SingleCropTool per run
MaxCropBoxEvents == 4

\* ------------------------------------------------------- rational numbers
RECURSIVE GCD(_, _)
GCD(a, b) == IF b = 0 THEN a ELSE GCD(b, a % b)

Abs(n) == IF n < 0 THEN -n ELSE n

Rat(n, d) ==
  LET g == GCD(Abs(n), Abs(d))
      s == IF d < 0 THEN -1 ELSE 1
  IN  <<(s * n) \div g, (s * d) \div g>>

Int2Rat(n) == <<n, 1>>
RAdd(a, b) == Rat(a[1] * b[2] + b[1] * a[2], a[2] * b[2])
RSub(a, b) == Rat(a[1] * b[2] - b[1] * a[2], a[2] * b[2])
RMul(a, b) == Rat(a[1] * b[1], a[2] * b[2])
RDiv(a, b) == Rat(a[1] * b[2], a[2] * b[1])
RLess(a, b) == a[1] * b[2] < b[1] * a[2]
RLeq(a, b) == a[1] * b[2] <= b[1] * a[2]
RMin(a, b) == IF RLess(b, a) THEN b ELSE a

\* Math.floor
Floor(a) == a[1] \div a[2]
\* Math.round: the nearest integer, halves towards +infinity
Round(a) == (2 * a[1] + a[2]) \div (2 * a[2])
\* WebIDL IntegerPart: truncation towards zero
IntegerPart(a) == IF a[1] >= 0 THEN a[1] \div a[2] ELSE -((-a[1]) \div a[2])

Max(a, b) == IF a >= b THEN a ELSE b

\* --------------------------------------------------------------- pictures
\* A decoded picture: W x H pixels, a background colour bg, and tcols x
\* trows solid tiles of colour tile, a border of `border` pixels around the
\* tiles, `gutter` pixels between the columns of tiles and `rowGutter`
\* pixels between the rows.  Colours are <<r, g, b>>.
White == <<255, 255, 255>>
Black == <<0, 0, 0>>
NearWhite == <<250, 252, 255>>
OffWhite == <<255, 249, 255>>

UnevenPicture(W, H, tcols, trows, border, gutter, rowGutter, tile, bg) ==
  [W |-> W, H |-> H, tcols |-> tcols, trows |-> trows, border |-> border,
   gutter |-> gutter, rowGutter |-> rowGutter, tile |-> tile, bg |-> bg]

\* the same gutter in both directions
Picture(W, H, tcols, trows, border, gutter, tile, bg) ==
  UnevenPicture(W, H, tcols, trows, border, gutter, gutter, tile, bg)

TileSize(len, n, border, gutter) == (len - 2 * border - (n - 1) * gutter) \div n

WellFormed(p) ==
  /\ TileSize(p.W, p.tcols, p.border, p.gutter) >= 1
  /\ TileSize(p.H, p.trows, p.border, p.rowGutter) >= 1
  /\ p.tcols * TileSize(p.W, p.tcols, p.border, p.gutter)
       + 2 * p.border + (p.tcols - 1) * p.gutter = p.W
  /\ p.trows * TileSize(p.H, p.trows, p.border, p.rowGutter)
       + 2 * p.border + (p.trows - 1) * p.rowGutter = p.H

InTile(pos, len, n, border, gutter) ==
  LET t == TileSize(len, n, border, gutter)
      q == pos - border
  IN  /\ q >= 0
      /\ q \div (t + gutter) < n
      /\ q % (t + gutter) < t

PixelAt(p, x, y) ==
  IF InTile(x, p.W, p.tcols, p.border, p.gutter)
       /\ InTile(y, p.H, p.trows, p.border, p.rowGutter)
  THEN p.tile ELSE p.bg

\* ------------------------------------------------- detectPadding.worker.ts
WHITE_THRESHOLD == 250
maxScanSize == 900

\* scale = Math.min(1, maxScanSize / Math.max(width, height)), as the real
\* number; the variable holds the double nearest to it
ScaleOf(p) == RMin(Int2Rat(1), Rat(maxScanSize, Max(p.W, p.H)))

\* ---- the double held in `scale` when the longer side m exceeds
\* maxScanSize.  It is k * 2^-E with 2^52 <= k < 2^53, k the integer
\* nearest to maxScanSize * 2^E / m, and E = 52 + ScaleBinade(m).  With
\* r = (maxScanSize * 2^E) mod m the double lies r / m units in the last
\* place below the quotient when 2r < m, and (m - r) / m above it when
\* 2r > m (2r = m would need 2^E to divide m).
RECURSIVE ScaleBinade(_, _)
ScaleBinade(m, j) == IF maxScanSize * 2^j >= m THEN j ELSE ScaleBinade(m, j + 1)

\* (maxScanSize * 2^(52 + j)) mod m, in steps that stay below 2^31
ScaleRemainder(m) ==
  LET p13 == 2^13 % m
      p26 == (p13 * p13) % m
      p52 == (p26 * p26) % m
      pE == (p52 * (2^ScaleBinade(m, 1) % m)) % m
  IN  ((maxScanSize % m) * pE) % m

\* the b with 2^b <= n < 2^(b+1), n >= 1
RECURSIVE Log2(_, _)
Log2(n, b) == IF 2^(b + 1) > n THEN b ELSE Log2(n, b + 1)

\* new OffscreenCanvas(len * scale, ...): the double product, converted to
\* [EnforceRange] unsigned long long, i.e. the fraction is dropped.  The
\* product of doubles differs from len * maxScanSize / m by less than
\* 1 / m, so the integer part is that of the real product unless the real
\* product is a whole number N; then the double product is N, or the
\* double just below N when scale was rounded down by more than half the
\* gap between N and that double.
ScaledLength(len, m) ==
  IF m <= maxScanSize THEN len
  ELSE IF (maxScanSize * len) % m # 0 THEN (maxScanSize * len) \div m
  ELSE LET N == (maxScanSize * len) \div m
           j == ScaleBinade(m, 1)
           r == ScaleRemainder(m)
           b == Log2(N, 0)
           gap == IF N = 2^b THEN 2^(j + b - 1) ELSE 2^(j + b)
       IN  IF 2 * r < m /\ 2 * len * r > m * gap THEN N - 1 ELSE N

SampleWidth(p) == ScaledLength(p.W, Max(p.W, p.H))
SampleHeight(p) == ScaledLength(p.H, Max(p.W, p.H))

\* Math.round(mostCommonGap / scale): the real quotient is g * m /
\* maxScanSize, and the double quotient rounds like it unless the real
\* quotient is n + 1/2; then the double quotient is n + 1/2, or the double
\* just below it when scale was rounded up far enough.
ScaledBack(g, m) ==
  IF m <= maxScanSize THEN g
  ELSE IF (2 * g * m) % maxScanSize # 0
            \/ ((2 * g * m) \div maxScanSize) % 2 = 0
  THEN Round(Rat(g * m, maxScanSize))
  ELSE LET n == (g * m) \div maxScanSize
           j == ScaleBinade(m, 1)
           r == ScaleRemainder(m)
           b == Log2(n, 0)
       IN  IF 2 * r > m /\ (2 * n + 1) * (m - r) > maxScanSize * 2^(j + b)
           THEN n ELSE n + 1

\* drawImage with imageSmoothingEnabled = false: nearest neighbour, the
\* sample pixel takes the source pixel under its centre
SourceCoord(s, sampleLen, sourceLen) == ((2 * s + 1) * sourceLen) \div (2 * sampleLen)

\* getImageData: data[(y * width + x) * 4 ..] of the sample buffer
SampleData(p, width, height, x, y) ==
  PixelAt(p, SourceCoord(x, width, p.W), SourceCoord(y, height, p.H))

isWhite(data, width, height, x, y) ==
  IF x < 0 \/ x >= width \/ y < 0 \/ y >= height THEN TRUE
  ELSE LET px == SampleData(data, width, height, x, y)
       IN  /\ px[1] >= WHITE_THRESHOLD
           /\ px[2] >= WHITE_THRESHOLD
           /\ px[3] >= WHITE_THRESHOLD

InSeq(s, v) == \E k \in 1..Len(s) : s[k] = v
\* Set.prototype.add: insertion order, no duplicates
SetAdd(s, v) == IF InSeq(s, v) THEN s ELSE Append(s, v)

\* GapAccepted without the upper limit
GapAcceptedAnyLength(gapSize, len) == gapSize >= 1

\* gapSize >= 1 && gapSize < len * 0.2
GapAccepted(gapSize, len) == gapSize >= 1 /\ 5 * gapSize < len

\* one iteration of the scan loop; st = [inGap, gapStart, gaps], pos is
\* the loop variable, len the scanned dimension
ScanStep(white, st, pos, len) ==
  IF white /\ ~st.inGap
  THEN [st EXCEPT !.inGap = TRUE, !.gapStart = pos]
  ELSE IF ~white /\ st.inGap
  THEN [st EXCEPT !.inGap = FALSE,
                  !.gaps = IF GapAccepted(pos - st.gapStart, len)
                           THEN SetAdd(st.gaps, pos - st.gapStart)
                           ELSE st.gaps]
  ELSE st

ScanStart(gaps) == [inGap |-> FALSE, gapStart |-> -1, gaps |-> gaps]

\* for (let x = lo; x < hi; x++) on the line y = scanY, the range split in
\* halves to keep the evaluation shallow
RECURSIVE ScanRow(_, _, _, _, _, _, _)
ScanRow(data, width, height, scanY, lo, hi, st) ==
  IF lo >= hi THEN st
  ELSE IF hi = lo + 1
  THEN ScanStep(isWhite(data, width, height, lo, scanY), st, lo, width)
  ELSE LET mid == (lo + hi) \div 2
           left == ScanRow(data, width, height, scanY, lo, mid, st)
       IN  \* the left half is evaluated before the right half starts
           IF left.inGap \in BOOLEAN
           THEN ScanRow(data, width, height, scanY, mid, hi, left)
           ELSE st

\* for (let y = lo; y < hi; y++) on the line x = scanX
RECURSIVE ScanColumn(_, _, _, _, _, _, _)
ScanColumn(data, width, height, scanX, lo, hi, st) ==
  IF lo >= hi THEN st
  ELSE IF hi = lo + 1
  THEN ScanStep(isWhite(data, width, height, scanX, lo), st, lo, height)
  ELSE LET mid == (lo + hi) \div 2
           left == ScanColumn(data, width, height, scanX, lo, mid, st)
       IN  \* the left half is evaluated before the right half starts
           IF left.inGap \in BOOLEAN
           THEN ScanColumn(data, width, height, scanX, mid, hi, left)
           ELSE st

\* the three scan positions Math.floor(len * 0.1), (len * 0.5), (len * 0.9)
ScanLines(len) == <<Floor(Rat(len, 10)), Floor(Rat(len, 2)), Floor(Rat(9 * len, 10))>>

detectVerticalGaps(data, width, height) ==
  LET L == ScanLines(height)
      g1 == ScanRow(data, width, height, L[1], 1, width - 1, ScanStart(<<>>)).gaps
      g2 == ScanRow(data, width, height, L[2], 1, width - 1, ScanStart(g1)).gaps
  IN  ScanRow(data, width, height, L[3], 1, width - 1, ScanStart(g2)).gaps

detectHorizontalGaps(data, width, height) ==
  LET L == ScanLines(width)
      g1 == ScanColumn(data, width, height, L[1], 1, height - 1, ScanStart(<<>>)).gaps
      g2 == ScanColumn(data, width, height, L[2], 1, height - 1, ScanStart(g1)).gaps
  IN  ScanColumn(data, width, height, L[3], 1, height - 1, ScanStart(g2)).gaps

\* Math.round(gap / 2) * 2
RoundToTwo(gap) == Round(Rat(gap, 2)) * 2

\* frequency: a Map in insertion order, as a sequence of <<size, freq>>
RECURSIVE Tally(_, _, _)
Tally(allGaps, k, frequency) ==
  IF k > Len(allGaps) THEN frequency
  ELSE LET rounded == RoundToTwo(allGaps[k])
           at == {j \in 1..Len(frequency) : frequency[j][1] = rounded}
       IN  IF at = {}
           THEN Tally(allGaps, k + 1, Append(frequency, <<rounded, 1>>))
           ELSE LET j == CHOOSE j \in at : TRUE
                IN  Tally(allGaps, k + 1,
                          [frequency EXCEPT ![j] = <<rounded, frequency[j][2] + 1>>])

\* MostFrequent with >= for >: the last of the most frequent values wins
RECURSIVE MostFrequentLast(_, _, _, _)
MostFrequentLast(frequency, k, maxFreq, mostCommonGap) ==
  IF k > Len(frequency) THEN mostCommonGap
  ELSE IF frequency[k][2] >= maxFreq
       THEN MostFrequentLast(frequency, k + 1, frequency[k][2], frequency[k][1])
       ELSE MostFrequentLast(frequency, k + 1, maxFreq, mostCommonGap)

RECURSIVE MostFrequent(_, _, _, _)
MostFrequent(frequency, k, maxFreq, mostCommonGap) ==
  IF k > Len(frequency) THEN mostCommonGap
  ELSE IF frequency[k][2] > maxFreq
       THEN MostFrequent(frequency, k + 1, frequency[k][2], frequency[k][1])
       ELSE MostFrequent(frequency, k + 1, maxFreq, mostCommonGap)

\* ctx.getImageData(0, 0, offscreen.width, offscreen.height) throws an
\* IndexSizeError when the canvas is 0 wide or 0 high
ImageDataThrows(imageBitmap) ==
  SampleWidth(imageBitmap) = 0 \/ SampleHeight(imageBitmap) = 0

\* detectPadding, once the 2d context and the pixel data were obtained
detectPadding(imageBitmap) ==
  LET width == SampleWidth(imageBitmap)
      height == SampleHeight(imageBitmap)
      vGaps == detectVerticalGaps(imageBitmap, width, height)
      hGaps == detectHorizontalGaps(imageBitmap, width, height)
      allGaps == vGaps \o hGaps
      mostCommonGap == MostFrequent(Tally(allGaps, 1, <<>>), 1, 0, 0)
  IN  IF Len(allGaps) = 0 THEN 0
      ELSE ScaledBack(mostCommonGap, Max(imageBitmap.W, imageBitmap.H))

\* ----------------------------------------------------- cropImage.worker.ts
\* CellWidth with the padding forgotten
CellWidthNoPadding(W, cols, padding) == Rat(W, cols)

\* cellWidth = (W - padding * (cols - 1)) / cols
CellWidth(W, cols, padding) == Rat(W - padding * (cols - 1), cols)
CellHeight(H, rows, padding) == Rat(H - padding * (rows - 1), rows)

\* SourceRect with the row taken as i div rows
SourceRectByRows(W, H, cols, rows, padding, i) ==
  LET cellWidth == CellWidth(W, cols, padding)
      cellHeight == CellHeight(H, rows, padding)
      col == i % cols
      row == i \div rows
  IN  [x |-> RMul(Int2Rat(col), RAdd(cellWidth, Int2Rat(padding))),
       y |-> RMul(Int2Rat(row), RAdd(cellHeight, Int2Rat(padding))),
       w |-> cellWidth, h |-> cellHeight]

\* SourceRect with the padding left out of the cell origin
SourceRectNoPadding(W, H, cols, rows, padding, i) ==
  LET cellWidth == CellWidth(W, cols, padding)
      cellHeight == CellHeight(H, rows, padding)
      col == i % cols
      row == i \div cols
  IN  [x |-> RMul(Int2Rat(col), cellWidth),
       y |-> RMul(Int2Rat(row), cellHeight),
       w |-> cellWidth, h |-> cellHeight]

\* the source rectangle handed to drawImage for crop i (0-based)
SourceRect(W, H, cols, rows, padding, i) ==
  LET cellWidth == CellWidth(W, cols, padding)
      cellHeight == CellHeight(H, rows, padding)
      col == i % cols
      row == i \div cols
  IN  [x |-> RMul(Int2Rat(col), RAdd(cellWidth, Int2Rat(padding))),
       y |-> RMul(Int2Rat(row), RAdd(cellHeight, Int2Rat(padding))),
       w |-> cellWidth, h |-> cellHeight]

\* ---- the croppers that ran on the main thread
\* GridToolQuad with a padding strip counted on both outer edges too
GridToolQuadOuterStrips(W, H, cols, rows, padding, i) ==
  LET cellWidth == Rat(W - padding * (cols + 1), cols)
      cellHeight == Rat(H - padding * (rows + 1), rows)
      col == i % cols
      row == i \div cols
      x == RMul(Int2Rat(col), RAdd(cellWidth, Int2Rat(padding)))
      y == RMul(Int2Rat(row), RAdd(cellHeight, Int2Rat(padding)))
  IN  [x |-> x, y |-> y, w |-> cellWidth, h |-> cellHeight]

\* cropImage of the earlier GridTool: the quad of crop i (0-based), the
\* source rectangle of its drawImage
GridToolQuad(W, H, cols, rows, padding, i) ==
  LET cellWidth == Rat(W - padding * (cols - 1), cols)
      cellHeight == Rat(H - padding * (rows - 1), rows)
      col == i % cols
      row == i \div cols
      x == RMul(Int2Rat(col), RAdd(cellWidth, Int2Rat(padding)))
      y == RMul(Int2Rat(row), RAdd(cellHeight, Int2Rat(padding)))
  IN  [x |-> x, y |-> y, w |-> cellWidth, h |-> cellHeight]

\* cropImage of App.tsx, which knows no padding: the quad of crop i
AppQuad(W, H, cols, rows, i) ==
  LET col == i % cols
      row == i \div cols
  IN  [x |-> RMul(Int2Rat(col), Rat(W, cols)),
       y |-> RMul(Int2Rat(row), Rat(H, rows)),
       w |-> Rat(W, cols), h |-> Rat(H, rows)]

\* new OffscreenCanvas(cellWidth, cellHeight): each argument is converted
\* to [EnforceRange] unsigned long long, i.e. truncated, and a negative
\* integer part makes the constructor throw a TypeError
CanvasThrows(cellWidth, cellHeight) ==
  IntegerPart(cellWidth) < 0 \/ IntegerPart(cellHeight) < 0
CanvasSize(cellWidth, cellHeight) ==
  [width |-> IntegerPart(cellWidth), height |-> IntegerPart(cellHeight)]

\* offscreen.convertToBlob rejects with IndexSizeError when the canvas
\* bitmap has no pixels
BlobRejects(canvas) == canvas.width = 0 \/ canvas.height = 0

\* error messages: the text and, for the crop context error, the index i
NoError == [message |-> "", crop |-> -1]
ContextError(i) == [message |-> "Failed to get OffscreenCanvas context for crop", crop |-> i]
DetectContextError == [message |-> "Failed to get OffscreenCanvas context", crop |-> -1]
TypeErrorMsg == [message |-> "TypeError: value is outside the unsigned long long range", crop |-> -1]
IndexSizeErrorMsg == [message |-> "IndexSizeError: the canvas has no pixels", crop |-> -1]
ImageDataErrorMsg == [message |-> "IndexSizeError: the source width or height is 0", crop |-> -1]

\* The part of one loop iteration of cropImage that runs without yielding:
\* from the loop test to `await offscreen.convertToBlob`.  t is the task,
\* ctxOk tells whether getContext('2d') returned a context.  The result is
\* the task, in phase "thrown" when the iteration threw.  The encoded
\* image (the data URL pushed later) is identified by the bitmap, the
\* source rectangle drawn and the size of the canvas.
IterationHead(t, ctxOk) ==
  LET W == t.imageBitmap.W
      H == t.imageBitmap.H
      r == SourceRect(W, H, t.cols, t.rows, t.padding, t.i)
  IN  IF CanvasThrows(r.w, r.h)
      THEN [t EXCEPT !.phase = "thrown", !.error = TypeErrorMsg]
      ELSE IF ~ctxOk
      THEN [t EXCEPT !.phase = "thrown", !.error = ContextError(t.i)]
      ELSE IF BlobRejects(CanvasSize(r.w, r.h))
      THEN [t EXCEPT !.phase = "thrown", !.error = IndexSizeErrorMsg]
      ELSE [t EXCEPT !.phase = "blob",
                     !.pending = <<[of |-> t.imageBitmap, src |-> r,
                                    canvas |-> CanvasSize(r.w, r.h)]>>]

\* a crop-image request as the worker sees it; req is the identity of the
\* request (the id of the call that posted it), carried for the properties
\* only: no code reads it
NewTask(m) ==
  [req |-> m.req, imageBitmap |-> m.imageBitmap, cols |-> m.cols,
   rows |-> m.rows, padding |-> m.padding, i |-> 0, crops |-> <<>>,
   phase |-> "start", error |-> NoError, pending |-> <<>>]

\* ------------------------------------------------------ SingleCropTool.tsx
\* Math.max of two numbers
RMax(a, b) == IF RLess(a, b) THEN b ELSE a

\* originalImage = null
NoElement == [width |-> 0, height |-> 0]
Box(x, y, width, height) == [x |-> x, y |-> y, width |-> width, height |-> height]

\* the ratio buttons; 0 is "Free"
ratioPresets ==
  {<<1, 1>>, <<4, 3>>, <<3, 4>>, <<16, 9>>, <<9, 16>>, <<3, 2>>, <<2, 3>>,
   <<7, 3>>, <<3, 7>>, <<5, 4>>, <<4, 5>>, <<0, 1>>}

\* useState initial values; pending holds the pictures being read and
\* decoded, events counts the events that changed something
Unloaded ==
  [originalImage |-> NoElement, isProcessing |-> FALSE,
   cropBox |-> Box(<<50, 1>>, <<50, 1>>, <<200, 1>>, <<200, 1>>),
   aspectRatio |-> <<1, 1>>, isDragging |-> FALSE, isResizing |-> FALSE,
   resizeHandle |-> "", dragStart |-> [x |-> <<0, 1>>, y |-> <<0, 1>>],
   boxStart |-> Box(<<0, 1>>, <<0, 1>>, <<0, 1>>, <<0, 1>>),
   pending |-> {}, events |-> 0]

\* handleFileUpload: the file goes to a FileReader; img.onload will run
\* with the aspectRatio of this render
handleFileUpload(s, img) ==
  [s EXCEPT !.isProcessing = TRUE,
            !.pending = @ \cup {[img |-> img, aspectRatio |-> s.aspectRatio,
                                 upload |-> TRUE]}]

\* the effect on initialImage: the picture GridTool handed over is decoded;
\* img.onload will run with the aspectRatio of the render of the effect
useInitialImage(s, img) ==
  [s EXCEPT !.pending = @ \cup {[img |-> img, aspectRatio |-> s.aspectRatio,
                                 upload |-> FALSE]}]

\* img.onload of either load: the crop box set for the new picture
LoadedCropBox(img, aspectRatio) ==
  LET maxSize == Rat(6 * (IF img.width <= img.height THEN img.width ELSE img.height), 10)
      ratio == IF aspectRatio = <<0, 1>> THEN <<1, 1>> ELSE aspectRatio
      height == RDiv(maxSize, ratio)
  IN  Box(RDiv(RSub(Int2Rat(img.width), maxSize), <<2, 1>>),
          RDiv(RSub(Int2Rat(img.height), maxSize), <<2, 1>>),
          maxSize, height)

imgOnload(s, load) ==
  [s EXCEPT !.originalImage = load.img,
            !.cropBox = LoadedCropBox(load.img, load.aspectRatio),
            !.isProcessing = IF load.upload THEN FALSE ELSE @,
            !.pending = @ \ {load}]

\* the eight handles in the order handleMouseDown tries them
handles(cropBox) ==
  LET b == cropBox
      midX == RAdd(b.x, RDiv(b.width, <<2, 1>>))
      midY == RAdd(b.y, RDiv(b.height, <<2, 1>>))
      right == RAdd(b.x, b.width)
      bottom == RAdd(b.y, b.height)
  IN  <<[name |-> "nw", x |-> b.x, y |-> b.y],
        [name |-> "n", x |-> midX, y |-> b.y],
        [name |-> "ne", x |-> right, y |-> b.y],
        [name |-> "e", x |-> right, y |-> midY],
        [name |-> "se", x |-> right, y |-> bottom],
        [name |-> "s", x |-> midX, y |-> bottom],
        [name |-> "sw", x |-> b.x, y |-> bottom],
        [name |-> "w", x |-> b.x, y |-> midY]>>

\* 20 * scaleX, the picture shown at its natural size
handleSize == <<20, 1>>

Grabbed(handle, mouseX, mouseY) ==
  /\ RLeq(RSub(handle.x, handleSize), mouseX)
  /\ RLeq(mouseX, RAdd(handle.x, handleSize))
  /\ RLeq(RSub(handle.y, handleSize), mouseY)
  /\ RLeq(mouseY, RAdd(handle.y, handleSize))

\* handleMouseDown at (mouseX, mouseY), in pixels of the picture
handleMouseDown(s, mouseX, mouseY) ==
  LET hs == handles(s.cropBox)
      b == s.cropBox
      hit == {k \in 1..Len(hs) : Grabbed(hs[k], mouseX, mouseY)}
      first == CHOOSE k \in hit : \A j \in hit : k <= j
  IN  IF s.originalImage = NoElement THEN s
      ELSE IF hit # {}
      THEN [s EXCEPT !.isResizing = TRUE, !.resizeHandle = hs[first].name,
                     !.dragStart = [x |-> mouseX, y |-> mouseY], !.boxStart = b]
      ELSE IF /\ RLeq(b.x, mouseX) /\ RLeq(mouseX, RAdd(b.x, b.width))
              /\ RLeq(b.y, mouseY) /\ RLeq(mouseY, RAdd(b.y, b.height))
      THEN [s EXCEPT !.isDragging = TRUE,
                     !.dragStart = [x |-> mouseX, y |-> mouseY], !.boxStart = b]
      ELSE s

\* resizeHandle.includes(letter)
Includes(resizeHandle, letter) ==
  letter \in (CASE resizeHandle = "nw" -> {"n", "w"}
                [] resizeHandle = "ne" -> {"n", "e"}
                [] resizeHandle = "se" -> {"s", "e"}
                [] resizeHandle = "sw" -> {"s", "w"}
                [] OTHER -> {resizeHandle})

\* handleMouseMove, the isResizing branch: the box for a pointer that
\* moved by (dx, dy) since the mouse went down
Resized(s, dx, dy) ==
  LET b == s.boxStart
      h == s.resizeHandle
      W == Int2Rat(s.originalImage.width)
      H == Int2Rat(s.originalImage.height)
      potentialWidth == RMax(<<50, 1>>, RSub(b.width, dx))
      potentialHeight == RMax(<<50, 1>>, RSub(b.height, dy))
      west == Includes(h, "w") /\ RLess(<<50, 1>>, potentialWidth)
      north == Includes(h, "n") /\ RLess(<<50, 1>>, potentialHeight)
      width1 == IF west THEN potentialWidth
                ELSE IF Includes(h, "e") THEN RMax(<<50, 1>>, RAdd(b.width, dx))
                ELSE b.width
      height1 == IF north THEN potentialHeight
                 ELSE IF Includes(h, "s") THEN RMax(<<50, 1>>, RAdd(b.height, dy))
                 ELSE b.height
      x1 == IF west THEN RAdd(b.x, dx) ELSE b.x
      y1 == IF north THEN RAdd(b.y, dy) ELSE b.y
      locked == RLess(<<0, 1>>, s.aspectRatio)
      newSize == RMin(width1, height1)
      width2 == IF locked /\ h \in {"se", "nw", "sw", "ne"} THEN newSize
                ELSE IF locked /\ h \in {"n", "s"} THEN RMul(height1, s.aspectRatio)
                ELSE width1
      height2 == IF locked /\ h \in {"se", "nw", "sw", "ne"} THEN RDiv(newSize, s.aspectRatio)
                 ELSE IF locked /\ h \in {"e", "w"} THEN RDiv(width1, s.aspectRatio)
                 ELSE height1
      x2 == IF locked /\ h \in {"nw", "sw", "w"}
            THEN RSub(RAdd(b.x, b.width), width2) ELSE x1
      y2 == IF locked /\ h \in {"nw", "ne", "n"}
            THEN RSub(RAdd(b.y, b.height), height2) ELSE y1
      newX == RMax(<<0, 1>>, RMin(x2, RSub(W, width2)))
      newY == RMax(<<0, 1>>, RMin(y2, RSub(H, height2)))
      newWidth == RMax(<<50, 1>>, RMin(width2, RSub(W, newX)))
      newHeight == RMax(<<50, 1>>, RMin(height2, RSub(H, newY)))
  IN  Box(newX, newY, newWidth, newHeight)

\* handleMouseMove, the isDragging branch
Dragged(s, dx, dy) ==
  LET b == s.boxStart
      W == Int2Rat(s.originalImage.width)
      H == Int2Rat(s.originalImage.height)
  IN  [s.cropBox EXCEPT
         !.x = RMax(<<0, 1>>, RMin(RAdd(b.x, dx), RSub(W, b.width))),
         !.y = RMax(<<0, 1>>, RMin(RAdd(b.y, dy), RSub(H, b.height)))]

\* handleMouseMove at (mouseX, mouseY); with both flags set the box of
\* the second setCropBox, the resized one, is the one rendered
handleMouseMove(s, mouseX, mouseY) ==
  LET dx == RSub(mouseX, s.dragStart.x)
      dy == RSub(mouseY, s.dragStart.y)
  IN  IF s.originalImage = NoElement THEN s
      ELSE IF ~s.isDragging /\ ~s.isResizing THEN s
      ELSE IF s.isResizing THEN [s EXCEPT !.cropBox = Resized(s, dx, dy)]
      ELSE [s EXCEPT !.cropBox = Dragged(s, dx, dy)]

\* handleMouseUp, also the handler of mouseleave
handleMouseUp(s) ==
  [s EXCEPT !.isDragging = FALSE, !.isResizing = FALSE, !.resizeHandle = ""]

\* handleRatioChange: the box keeps its centre and its shorter side
handleRatioChange(s, ratio) ==
  LET b == s.cropBox
      centerX == RAdd(b.x, RDiv(b.width, <<2, 1>>))
      centerY == RAdd(b.y, RDiv(b.height, <<2, 1>>))
      size == RMin(b.width, b.height)
      newHeight == RDiv(size, ratio)
  IN  IF s.originalImage # NoElement /\ RLess(<<0, 1>>, ratio)
      THEN [s EXCEPT !.aspectRatio = ratio,
                     !.cropBox = Box(RSub(centerX, RDiv(size, <<2, 1>>)),
                                     RSub(centerY, RDiv(newHeight, <<2, 1>>)),
                                     size, newHeight)]
      ELSE [s EXCEPT !.aspectRatio = ratio]

\* --------------------------------------------------------------- state
VARIABLES
  \* GridTool: React state
  originalImage, croppedImages, croppedDataURLs, isProcessing, columns,
  rows, autoPadding, paddingInfo, workerError, offscreenCanvasSupported,
  \* GridTool: refs, effect bookkeeping, pending promise calls, listeners
  detectPaddingWorker, cropImageWorker, effects, calls,
  detectListeners, cropListeners,
  \* ImageBitmap handles, by the id of the call that created them
  bitmaps,
  \* the workers: messages not yet handled, crop tasks suspended at an
  \* await, responses posted and not yet dispatched on the main thread
  detectInbox, cropInbox, cropTasks, detectOutbox, cropOutbox,
  \* files being read and decoded, and the number of user actions so far
  loading, userActions,
  \* the number of times getContext('2d') returned null so far
  contextFailures,
  \* SingleCropTool, the sibling of GridTool under App: its React state
  singleCropTool

uiVars == <<originalImage, croppedImages, croppedDataURLs, isProcessing,
            columns, rows, autoPadding, paddingInfo, workerError,
            offscreenCanvasSupported>>
hostVars == <<detectPaddingWorker, cropImageWorker, effects, calls,
              detectListeners, cropListeners, loading, userActions>>
detectWorkerVars == <<detectInbox, detectOutbox>>
cropWorkerVars == <<cropInbox, cropTasks, cropOutbox>>
gridVars == <<uiVars, hostVars, bitmaps, detectWorkerVars, cropWorkerVars,
              contextFailures>>
vars == <<gridVars, singleCropTool>>

\* the outcomes of getContext('2d'): a context, or null while the host may
\* still run out of resources
ContextOutcomes == IF contextFailures < MaxContextFailures THEN BOOLEAN ELSE {TRUE}
GotContext(ctxOk) == contextFailures' = IF ctxOk THEN contextFailures ELSE contextFailures + 1

\* ------------------------------------------------ crop worker: onmessage
\* await cropImage(...) returned: close the bitmap, post the result
CropFinish(t) ==
  /\ bitmaps' = [bitmaps EXCEPT ![t.req] = "closed"]
  /\ cropOutbox' = Append(cropOutbox,
        [type |-> "crop-image-result", croppedDataURLs |-> t.crops,
         error |-> NoError, req |-> t.req])

\* CropCatch without the catch block: the exception leaves the handler
CropCatchEscapes(t) ==
  /\ bitmaps' = bitmaps
  /\ cropOutbox' = cropOutbox

\* catch (error): post the error response
CropCatch(t) ==
  /\ bitmaps' = bitmaps
  /\ cropOutbox' = Append(cropOutbox,
        [type |-> "crop-image-error", croppedDataURLs |-> <<>>,
         error |-> t.error, req |-> t.req])

\* a task after a synchronous stretch: suspended at an await, or over
CropSettle(t, others) ==
  IF t.phase = "thrown" THEN CropCatch(t) /\ cropTasks' = others
  ELSE IF t.phase = "done" THEN CropFinish(t) /\ cropTasks' = others
  ELSE /\ cropTasks' = others \cup {t}
       /\ UNCHANGED <<bitmaps, cropOutbox>>

\* self.onmessage is invoked with the next message and runs the first
\* iteration up to its first await
CropWorkerReceive ==
  /\ cropInbox # <<>>
  /\ \E ctxOk \in ContextOutcomes :
       LET t == IterationHead(NewTask(Head(cropInbox)), ctxOk)
       IN  /\ CropSettle(t, cropTasks)
           /\ GotContext(t.error # ContextError(t.i))
  /\ cropInbox' = Tail(cropInbox)
  /\ UNCHANGED singleCropTool
  /\ UNCHANGED <<uiVars, hostVars, detectWorkerVars>>

\* convertToBlob resolved: the task goes on to `await blobToDataURL(blob)`
CropWorkerBlobReady ==
  /\ \E t \in cropTasks :
       /\ t.phase = "blob"
       /\ cropTasks' = (cropTasks \ {t}) \cup {[t EXCEPT !.phase = "url"]}
  /\ UNCHANGED singleCropTool
  /\ UNCHANGED <<uiVars, hostVars, bitmaps, detectWorkerVars, cropInbox,
                 cropOutbox, contextFailures>>

\* blobToDataURL resolved: crops.push(dataURL), i++, then the next
\* iteration up to its await, or the return when the loop is over
CropWorkerUrlReady ==
  /\ \E t \in cropTasks :
       /\ t.phase = "url"
       /\ LET u == [t EXCEPT !.crops = Append(t.crops, t.pending[1]),
                             !.i = t.i + 1, !.pending = <<>>]
          IN  IF u.i < u.cols * u.rows
              THEN \E ctxOk \in ContextOutcomes :
                     LET v == IterationHead(u, ctxOk)
                     IN  /\ CropSettle(v, cropTasks \ {t})
                         /\ GotContext(v.error # ContextError(v.i))
              ELSE /\ CropSettle([u EXCEPT !.phase = "done"], cropTasks \ {t})
                   /\ UNCHANGED contextFailures
  /\ UNCHANGED singleCropTool
  /\ UNCHANGED <<uiVars, hostVars, detectWorkerVars, cropInbox>>

\* ---------------------------------------------- detect worker: onmessage
\* detectPadding has no await inside, so a request is handled in one piece
DetectWorkerReceive ==
  /\ detectInbox # <<>>
  /\ LET m == Head(detectInbox)
     IN  \E ctxOk \in ContextOutcomes :
           /\ GotContext(ctxOk)
           /\ IF ctxOk /\ ~ImageDataThrows(m.imageBitmap)
              THEN /\ bitmaps' = [bitmaps EXCEPT ![m.req] = "closed"]
                   /\ detectOutbox' = Append(detectOutbox,
                        [type |-> "detect-padding-result",
                         paddingSize |-> detectPadding(m.imageBitmap),
                         error |-> NoError, req |-> m.req])
              ELSE /\ bitmaps' = bitmaps
                   /\ detectOutbox' = Append(detectOutbox,
                        [type |-> "detect-padding-error", paddingSize |-> 0,
                         error |-> IF ctxOk THEN ImageDataErrorMsg
                                   ELSE DetectContextError,
                         req |-> m.req])
  /\ detectInbox' = Tail(detectInbox)
  /\ UNCHANGED singleCropTool
  /\ UNCHANGED <<uiVars, hostVars, cropWorkerVars>>

\* ------------------------------------------------------------ GridTool.tsx
NoPicture == Picture(0, 0, 0, 0, 0, 0, Black, Black)
\* originalImage: null, or an HTMLImageElement with its identity
NoImage == [id |-> 0, pic |-> NoPicture]

OffscreenCanvasMissing ==
  [message |-> "OffscreenCanvas is not supported in this browser", crop |-> -1]

\* the component's state as one record, to thread it through a render
Current ==
  [originalImage |-> originalImage, croppedImages |-> croppedImages,
   croppedDataURLs |-> croppedDataURLs, isProcessing |-> isProcessing,
   columns |-> columns, rows |-> rows, autoPadding |-> autoPadding,
   paddingInfo |-> paddingInfo, workerError |-> workerError,
   effects |-> effects, calls |-> calls]

Commit(s) ==
  /\ originalImage' = s.originalImage
  /\ croppedImages' = s.croppedImages
  /\ croppedDataURLs' = s.croppedDataURLs
  /\ isProcessing' = s.isProcessing
  /\ columns' = s.columns
  /\ rows' = s.rows
  /\ autoPadding' = s.autoPadding
  /\ paddingInfo' = s.paddingInfo
  /\ workerError' = s.workerError
  /\ effects' = s.effects
  /\ calls' = s.calls

\* dependency lists of the two effects (objects compare by identity)
DetectDeps(s) == <<s.originalImage.id, s.autoPadding>>
CropDeps(s) ==
  <<s.originalImage.id, s.columns, s.rows, s.autoPadding,
    s.paddingInfo.size, s.paddingInfo.detected>>

\* the promise returned by detectPaddingWithWorker / cropImageWithWorker
\* together with the `mounted` flag of the effect run that awaits it
NewCall(kind, s, padding) ==
  [kind |-> kind, mounted |-> TRUE, phase |-> "bitmap",
   img |-> s.originalImage, cols |-> s.columns, rows |-> s.rows,
   padding |-> padding, auto |-> s.autoPadding]

\* Promises and bitmaps are kept while something can still reach them:
\* calls and bitmaps are functions over the ids of the live calls, and an
\* id is free again once its call is settled and its own response was
\* dispatched.
\* FreshId that hands out the same id every time
FreshIdReused(used) == 1

FreshId(used) == CHOOSE n \in 1..(Cardinality(used) + 1) :
                   n \notin used /\ \A k \in 1..(n - 1) : k \in used
AddCall(cs, c) == (FreshId(DOMAIN cs) :> c) @@ cs
Without(f, ids) == [id \in DOMAIN f \ ids |-> f[id]]

\* effect cleanup: mounted = false
Cleanup(cs, id) ==
  IF id \in DOMAIN cs THEN [cs EXCEPT ![id].mounted = FALSE] ELSE cs

\* One commit: the cleanups of the effects whose dependencies changed, then
\* their bodies, all reading the state s of the render they belong to.
Flush(s) ==
  LET dRun == DetectDeps(s) # s.effects.detectDeps
      cRun == CropDeps(s) # s.effects.cropDeps
      c0 == IF dRun THEN Cleanup(s.calls, s.effects.detectCall) ELSE s.calls
      c1 == IF cRun THEN Cleanup(c0, s.effects.cropCall) ELSE c0
      \* detectPaddingAsync
      dIssue == /\ dRun
                /\ s.originalImage # NoImage
                /\ s.autoPadding
                /\ detectPaddingWorker # "null"
      dId == FreshId(DOMAIN c1)
      c2 == IF dIssue THEN AddCall(c1, NewCall("detect", s, 0)) ELSE c1
      \* cropImageAsync
      cIssue == /\ cRun
                /\ ~(s.autoPadding /\ ~s.paddingInfo.detected)
                /\ s.originalImage # NoImage
                /\ cropImageWorker # "null"
      padding == IF s.autoPadding THEN s.paddingInfo.size ELSE 0
      cId == FreshId(DOMAIN c2)
      c3 == IF cIssue THEN AddCall(c2, NewCall("crop", s, padding)) ELSE c2
  IN  [s EXCEPT
        !.isProcessing = IF dIssue \/ cIssue THEN TRUE ELSE @,
        !.paddingInfo = IF dRun /\ ~dIssue
                        THEN [size |-> 0, detected |-> FALSE] ELSE @,
        !.calls = c3,
        !.effects =
           [detectDeps |-> DetectDeps(s),
            detectCall |-> IF dRun THEN (IF dIssue THEN dId ELSE 0)
                           ELSE s.effects.detectCall,
            cropDeps |-> CropDeps(s),
            cropCall |-> IF cRun THEN (IF cIssue THEN cId ELSE 0)
                         ELSE s.effects.cropCall]]

\* render and flush effects until no effect has changed dependencies
RECURSIVE Render(_)
Render(s) == LET t == Flush(s) IN IF t = s THEN s ELSE Render(t)

hostFixed == <<offscreenCanvasSupported, detectPaddingWorker, cropImageWorker,
               contextFailures>>

\* uploads and requests still under way
Backlog ==
  Cardinality(loading)
    + Cardinality({id \in DOMAIN calls : calls[id].phase = "bitmap"})
    + Len(detectInbox) + Len(detectOutbox)
    + Len(cropInbox) + Cardinality(cropTasks) + Len(cropOutbox)
UserMayAct == userActions < MaxUserActions /\ Backlog' <= MaxBacklog
workerVars == <<bitmaps, detectWorkerVars, cropWorkerVars>>

\* the image elements something still refers to
ImagesInUse ==
  {originalImage.id} \cup {img.id : img \in loading}
    \cup {calls[id].img.id : id \in DOMAIN calls}

\* ---- user events
\* handleFileUpload: the file is handed to a FileReader
HandleFileUpload(pic) ==
  /\ userActions' = userActions + 1
  /\ loading' = loading \cup {[id |-> FreshId(ImagesInUse), pic |-> pic]}
  /\ Commit(Render([Current EXCEPT !.isProcessing = TRUE]))
  /\ UNCHANGED singleCropTool
  /\ UNCHANGED <<hostFixed, workerVars, detectListeners, cropListeners>>
  /\ UserMayAct

\* reader.onload, then img.onload
ImageOnload ==
  /\ \E img \in loading :
       /\ loading' = loading \ {img}
       /\ Commit(Render([Current EXCEPT !.originalImage = img,
                                        !.isProcessing = FALSE]))
  /\ UNCHANGED singleCropTool
  /\ UNCHANGED <<hostFixed, workerVars, detectListeners, cropListeners,
                 userActions>>

UserEvent(s) ==
  /\ userActions' = userActions + 1
  /\ Commit(Render(s))
  /\ UNCHANGED singleCropTool
  /\ UNCHANGED <<hostFixed, workerVars, detectListeners, cropListeners,
                 loading>>
  /\ UserMayAct

SetColumns(c) == c # columns /\ UserEvent([Current EXCEPT !.columns = c])
SetRows(r) == r # rows /\ UserEvent([Current EXCEPT !.rows = r])
ApplyPreset(p) ==
  /\ <<p.cols, p.rows>> # <<columns, rows>>
  /\ UserEvent([Current EXCEPT !.columns = p.cols, !.rows = p.rows])
SetAutoPadding == UserEvent([Current EXCEPT !.autoPadding = ~autoPadding])
DismissError ==
  /\ workerError # NoError
  /\ UserEvent([Current EXCEPT !.workerError = NoError])

\* ---- SingleCropTool: its events.  An event that changes nothing is a
\* stuttering step; MaxCropBoxEvents bounds the others.
CropBoxEvent(s) ==
  /\ s # singleCropTool
  /\ singleCropTool.events < MaxCropBoxEvents
  /\ singleCropTool' = [s EXCEPT !.events = @ + 1]
  /\ UNCHANGED gridVars

\* the file inputs are rendered while nothing is being processed
SingleHandleFileUpload(img) ==
  /\ ~singleCropTool.isProcessing
  /\ CropBoxEvent(handleFileUpload(singleCropTool, img))

\* GridTool handed a picture over (onUseImage, App's singleImageSrc)
UseInitialImage(img) == CropBoxEvent(useInitialImage(singleCropTool, img))

SingleImageOnload ==
  \E load \in singleCropTool.pending :
    CropBoxEvent(imgOnload(singleCropTool, load))

\* the picture, its handlers and the ratio buttons are rendered when a
\* picture is there and nothing is being processed
Shown == ~singleCropTool.isProcessing /\ singleCropTool.originalImage # NoElement

HandleMouseDown(mouseX, mouseY) ==
  Shown /\ CropBoxEvent(handleMouseDown(singleCropTool, <<mouseX, 1>>, <<mouseY, 1>>))
HandleMouseMove(mouseX, mouseY) ==
  Shown /\ CropBoxEvent(handleMouseMove(singleCropTool, <<mouseX, 1>>, <<mouseY, 1>>))
HandleMouseUp == Shown /\ CropBoxEvent(handleMouseUp(singleCropTool))
HandleRatioChange(ratio) ==
  Shown /\ CropBoxEvent(handleRatioChange(singleCropTool, ratio))

\* ---- createImageBitmap(img) resolved: register the handler, post the
\* request and transfer the bitmap
BitmapCreated ==
  /\ \E id \in DOMAIN calls :
       /\ calls[id].phase = "bitmap"
       /\ calls' = [calls EXCEPT ![id].phase = "posted"]
       /\ bitmaps' = (id :> "open") @@ bitmaps
       /\ LET c == calls[id]
              m == [req |-> id, imageBitmap |-> c.img.pic, cols |-> c.cols,
                    rows |-> c.rows, padding |-> c.padding]
          IN  IF c.kind = "detect"
              THEN /\ detectListeners' = Append(detectListeners, id)
                   /\ detectInbox' = Append(detectInbox, m)
                   /\ UNCHANGED <<cropListeners, cropInbox>>
              ELSE /\ cropListeners' = Append(cropListeners, id)
                   /\ cropInbox' = Append(cropInbox, m)
                   /\ UNCHANGED <<detectListeners, detectInbox>>
  /\ UNCHANGED singleCropTool
  /\ UNCHANGED <<uiVars, hostFixed, effects, loading, userActions,
                 detectOutbox, cropTasks, cropOutbox>>

\* ---- a worker's message event on the main thread
\* every registered handler sees the event; a handler that knows the type
\* removes itself and settles its promise
Settle(cs, ids, phase) ==
  [id \in DOMAIN cs |->
     IF InSeq(ids, id) THEN [cs[id] EXCEPT !.phase = phase] ELSE cs[id]]

\* DetectContinuation with a catch block that marks the padding detected
DetectContinuationMarksDetected(s, id, m) ==
  IF ~s.calls[id].mounted THEN s
  ELSE IF m.type = "detect-padding-result"
  THEN [s EXCEPT !.paddingInfo = [size |-> m.paddingSize, detected |-> TRUE],
                 !.isProcessing = FALSE]
  ELSE [s EXCEPT !.workerError = m.error,
                 !.paddingInfo = [size |-> 0, detected |-> TRUE],
                 !.isProcessing = FALSE]

\* the code after `await detectPaddingWithWorker(originalImage)`
DetectContinuation(s, id, m) ==
  IF ~s.calls[id].mounted THEN s
  ELSE IF m.type = "detect-padding-result"
  THEN [s EXCEPT !.paddingInfo = [size |-> m.paddingSize, detected |-> TRUE],
                 !.isProcessing = FALSE]
  ELSE [s EXCEPT !.workerError = m.error,
                 !.paddingInfo = [size |-> 0, detected |-> FALSE],
                 !.isProcessing = FALSE]

\* CropContinuation with a catch block that drops the images shown
CropContinuationClears(s, id, m) ==
  IF ~s.calls[id].mounted THEN s
  ELSE IF m.type = "crop-image-result"
  THEN [s EXCEPT !.croppedImages = m.croppedDataURLs,
                 !.croppedDataURLs = m.croppedDataURLs,
                 !.isProcessing = FALSE]
  ELSE [s EXCEPT !.workerError = m.error, !.isProcessing = FALSE,
                 !.croppedImages = <<>>, !.croppedDataURLs = <<>>]

\* the code after `await cropImageWithWorker(...)`
CropContinuation(s, id, m) ==
  IF ~s.calls[id].mounted THEN s
  ELSE IF m.type = "crop-image-result"
  THEN [s EXCEPT !.croppedImages = m.croppedDataURLs,
                 !.croppedDataURLs = m.croppedDataURLs,
                 !.isProcessing = FALSE]
  ELSE [s EXCEPT !.workerError = m.error, !.isProcessing = FALSE]

RECURSIVE Continuations(_, _, _, _)
Continuations(s, ids, k, m) ==
  IF k > Len(ids) THEN s
  ELSE Continuations(IF s.calls[ids[k]].kind = "detect"
                     THEN DetectContinuation(s, ids[k], m)
                     ELSE CropContinuation(s, ids[k], m),
                     ids, k + 1, m)

\* nothing refers any more to a settled call whose request was answered
Answered(cs, m) ==
  IF m.req \in DOMAIN cs /\ cs[m.req].phase \in {"resolved", "rejected"}
  THEN {m.req} ELSE {}

Forget(s, ids) ==
  [s EXCEPT !.calls = Without(s.calls, ids),
            !.effects.detectCall = IF @ \in ids THEN 0 ELSE @,
            !.effects.cropCall = IF @ \in ids THEN 0 ELSE @]

\* the handlers that act on the message: a handler compares message.type
\* with its two discriminants and does nothing when neither matches
Heard(m, listeners) ==
  IF m.type \in {"detect-padding-result", "detect-padding-error",
                 "crop-image-result", "crop-image-error"}
  THEN listeners ELSE <<>>
\* the handlers still registered after the event
StillListening(m, listeners) ==
  IF Heard(m, listeners) = listeners THEN <<>> ELSE listeners

Dispatch(m, listeners) ==
  LET phase == IF m.type \in {"detect-padding-result", "crop-image-result"}
               THEN "resolved" ELSE "rejected"
      heard == Heard(m, listeners)
      s0 == [Current EXCEPT !.calls = Settle(calls, heard, phase)]
      s1 == Continuations(s0, heard, 1, m)
      gone == Answered(s1.calls, m)
  IN  /\ Commit(Render(Forget(s1, gone)))
      /\ bitmaps' = Without(bitmaps, gone)

DispatchDetectResponse ==
  /\ detectOutbox # <<>>
  /\ Dispatch(Head(detectOutbox), detectListeners)
  /\ detectListeners' = StillListening(Head(detectOutbox), detectListeners)
  /\ detectOutbox' = Tail(detectOutbox)
  /\ UNCHANGED singleCropTool
  /\ UNCHANGED <<hostFixed, detectInbox, cropWorkerVars, cropListeners,
                 loading, userActions>>

\* DispatchCropResponse with no handler left to see the message
DispatchCropResponseDropped ==
  /\ cropOutbox # <<>>
  /\ cropOutbox' = Tail(cropOutbox)
  /\ UNCHANGED singleCropTool
  /\ UNCHANGED <<uiVars, hostVars, bitmaps, detectWorkerVars, cropInbox,
                 cropTasks, contextFailures>>

DispatchCropResponse ==
  /\ cropOutbox # <<>>
  /\ Dispatch(Head(cropOutbox), cropListeners)
  /\ cropListeners' = StillListening(Head(cropOutbox), cropListeners)
  /\ cropOutbox' = Tail(cropOutbox)
  /\ UNCHANGED singleCropTool
  /\ UNCHANGED <<hostFixed, cropInbox, cropTasks, detectWorkerVars,
                 detectListeners, loading, userActions>>

\* ------------------------------------------------------- initial states
presets ==
  <<[cols |-> 1, rows |-> 1], [cols |-> 2, rows |-> 2],
    [cols |-> 3, rows |-> 3], [cols |-> 4, rows |-> 4],
    [cols |-> 5, rows |-> 5], [cols |-> 2, rows |-> 3],
    [cols |-> 3, rows |-> 4]>>

\* WorkerRef without the OffscreenCanvas test before the workers are made
WorkerRefUntested(supported, workersOk) ==
  IF workersOk THEN "worker" ELSE "null"

\* detectPaddingWorker.current / cropImageWorker.current after the worker
\* initialisation effect: the effect returns before `new Worker` when
\* OffscreenCanvas is undefined, and leaves the refs null when it throws
WorkerRef(supported, workersOk) ==
  IF supported /\ workersOk THEN "worker" ELSE "null"

\* the component with the given image, grid and auto-padding flag, its
\* effects having run for them; no padding detected, no crops, no upload
\* under way
Component(img, cols, rws, auto, busy, supported, workersOk, detectCall, cropCall) ==
  /\ originalImage = img
  /\ croppedImages = <<>>
  /\ croppedDataURLs = <<>>
  /\ isProcessing = busy
  /\ columns = cols
  /\ rows = rws
  /\ autoPadding = auto
  /\ paddingInfo = [size |-> 0, detected |-> FALSE]
  \* the worker initialisation effect
  /\ offscreenCanvasSupported = supported
  /\ workerError = IF ~supported THEN OffscreenCanvasMissing
                   ELSE IF ~workersOk
                   THEN [message |-> "Failed to initialize workers", crop |-> -1]
                   ELSE NoError
  /\ detectPaddingWorker = WorkerRef(supported, workersOk)
  /\ cropImageWorker = WorkerRef(supported, workersOk)
  /\ effects = [detectDeps |-> <<img.id, auto>>, detectCall |-> detectCall,
                cropDeps |-> <<img.id, cols, rws, auto, 0, FALSE>>,
                cropCall |-> cropCall]
  /\ loading = {}
  /\ userActions = 0
  /\ contextFailures = 0
  \* SingleCropTool is mounted next to it, with no picture
  /\ singleCropTool = Unloaded

\* useState initial values (no image, 3 x 3, auto-padding off), after the
\* mount effects
Mounted(supported, workersOk) ==
  Component(NoImage, 3, 3, FALSE, FALSE, supported, workersOk, 0, 0)

Idle ==
  /\ calls = <<>>
  /\ detectListeners = <<>>
  /\ cropListeners = <<>>
  /\ bitmaps = <<>>
  /\ detectInbox = <<>>
  /\ cropInbox = <<>>
  /\ cropTasks = {}
  /\ detectOutbox = <<>>
  /\ cropOutbox = <<>>

Init ==
  /\ \E supported \in BOOLEAN, workersOk \in BOOLEAN : Mounted(supported, workersOk)
  /\ Idle

\* the pictures a user uploads: 7x2, two black tiles with a 1px white
\* gutter between them, and 2x2 solid black
GutterPicture == Picture(7, 2, 2, 1, 0, 1, Black, White)
SolidPicture == Picture(2, 2, 1, 1, 0, 0, Black, White)
UploadPictures == {GutterPicture, SolidPicture}

Next ==
  \/ \E pic \in UploadPictures : HandleFileUpload(pic)
  \/ ImageOnload
  \/ \E c \in 1..MaxGridChoice : SetColumns(c)
  \/ \E r \in 1..MaxGridChoice : SetRows(r)
  \/ \E k \in 1..MaxPresets : ApplyPreset(presets[k])
  \/ SetAutoPadding
  \/ DismissError
  \/ BitmapCreated
  \/ DetectWorkerReceive
  \/ CropWorkerReceive
  \/ CropWorkerBlobReady
  \/ CropWorkerUrlReady
  \/ DispatchDetectResponse
  \/ DispatchCropResponse

Spec == Init /\ [][Next]_vars

\* The event loops of the main thread and of the two workers run every
\* task that is queued (a resolved promise's continuation, a message
\* event): weak fairness of each such step.  For the steps whose effect
\* takes long to compute, WF_vars(A) is written out as
\* []<>~(A is enabled) \/ []<><<A>>_vars with the enabling condition of A
\* spelled out.
Scheduling ==
  /\ \/ []<>(~\E id \in DOMAIN calls : calls[id].phase = "bitmap")
     \/ []<><<BitmapCreated>>_vars
  /\ []<>(detectInbox = <<>>) \/ []<><<DetectWorkerReceive>>_vars
  /\ []<>(cropInbox = <<>>) \/ []<><<CropWorkerReceive>>_vars
  /\ WF_vars(CropWorkerBlobReady)
  /\ \/ []<>(~\E t \in cropTasks : t.phase = "url")
     \/ []<><<CropWorkerUrlReady>>_vars
  /\ []<>(detectOutbox = <<>>) \/ []<><<DispatchDetectResponse>>_vars
  /\ []<>(cropOutbox = <<>>) \/ []<><<DispatchCropResponse>>_vars

SpecLive == Init /\ [][Next]_vars /\ Scheduling

\* ---- the crop worker alone, on one request drawn from bounded sets
PlainPicture(W, H) == Picture(W, H, 1, 1, 0, 0, Black, White)
CropLengths == {2, 7, 300}
CropPaddings == (0..MaxCropPadding) \cup {15, 150}

\* GridTool has posted one request and waits for the response
Posted(kind, img, cols, rws, padding) ==
  /\ Component(img, cols, rws, kind = "detect", TRUE, TRUE, TRUE,
               IF kind = "detect" THEN 1 ELSE 0,
               IF kind = "crop" THEN 1 ELSE 0)
  /\ calls = (1 :> [kind |-> kind, mounted |-> TRUE, phase |-> "posted",
                     img |-> img, cols |-> cols, rows |-> rws,
                     padding |-> padding, auto |-> (kind = "detect")])
  /\ bitmaps = (1 :> "open")
  /\ cropTasks = {}
  /\ detectOutbox = <<>>
  /\ cropOutbox = <<>>
  /\ LET m == [req |-> 1, imageBitmap |-> img.pic, cols |-> cols,
               rows |-> rws, padding |-> padding]
     IN  IF kind = "detect"
         THEN /\ detectListeners = <<1>> /\ detectInbox = <<m>>
              /\ cropListeners = <<>> /\ cropInbox = <<>>
         ELSE /\ cropListeners = <<1>> /\ cropInbox = <<m>>
              /\ detectListeners = <<>> /\ detectInbox = <<>>

InitCrop ==
  \E W \in CropLengths, H \in CropLengths, cols \in 1..MaxGrid,
     rws \in 1..MaxGrid, padding \in CropPaddings :
    Posted("crop", [id |-> 1, pic |-> PlainPicture(W, H)], cols, rws, padding)

NextCrop ==
  \/ CropWorkerReceive
  \/ CropWorkerBlobReady
  \/ CropWorkerUrlReady

SpecCrop == InitCrop /\ [][NextCrop]_vars

\* ---- the detect worker alone, on one picture drawn from a bounded family
Scenario == Picture(300, 300, 3, 3, 15, 15, Black, White)
DetectLengths == {24, 110, 300}
DetectGrids == (1..3) \cup {6}
DetectGutters == (0..MaxTileGutter) \cup {10, 15}
\* pictures of one colour, and pictures without a white pixel
SolidSizes == {<<1, 1>>, <<24, 24>>, <<1000, 1>>}
SolidPictures ==
  {Picture(size[1], size[2], 1, 1, 0, 0, t, White) :
     size \in SolidSizes, t \in {White, Black, NearWhite, OffWhite}}
DarkPictures ==
  {p \in {Picture(24, 24, c, r, 0, g, OffWhite, Black) :
            c \in 1..3, r \in 1..3, g \in 1..MaxTileGutter} : WellFormed(p)}
\* 2x2 tiles whose gutters differ between the two directions
UnevenPictures ==
  {p \in {UnevenPicture(24, 24, 2, 2, b, g, rg, Black, White) :
            b \in 0..1, g \in 1..(MaxTileGutter + 1),
            rg \in 1..(MaxTileGutter + 1)} : WellFormed(p)}
\* pictures longer than maxScanSize, which are sampled at a smaller scale
LargeLengths == {1000, 1129, 1305, 1800}
LargeGutters == {9, 15, 20}
LargePictures ==
  {p \in {Picture(L, L, 2, 2, 0, g, Black, White) :
            L \in LargeLengths, g \in LargeGutters} : WellFormed(p)}
DetectPictures ==
  {p \in {Picture(L, L, c, r, b, g, t, White) :
            L \in DetectLengths, c \in DetectGrids, r \in DetectGrids,
            b \in DetectGutters, g \in DetectGutters,
            t \in {Black, NearWhite, OffWhite}} : WellFormed(p)}
    \cup SolidPictures \cup DarkPictures \cup UnevenPictures
    \cup LargePictures

InitDetect ==
  \E pic \in DetectPictures :
    Posted("detect", [id |-> 1, pic |-> pic], 3, 3, 0)

\* the worker answers, the main thread handles the answer
NextDetect ==
  \/ DetectWorkerReceive
  \/ DispatchDetectResponse

SpecDetect == InitDetect /\ [][NextDetect]_vars

\* ---- one request posted, and a worker port that also delivers a message
\* outside the protocol (the handlers cast event.data, they do not check it)
ForeignType == "progress"
ForeignMessage ==
  /\ \/ /\ detectListeners # <<>>
        /\ \A k \in 1..Len(detectOutbox) : detectOutbox[k].type # ForeignType
        /\ detectOutbox' = Append(detectOutbox,
              [type |-> ForeignType, paddingSize |-> 0, error |-> NoError,
               req |-> 0])
        /\ UNCHANGED cropOutbox
     \/ /\ cropListeners # <<>>
        /\ \A k \in 1..Len(cropOutbox) : cropOutbox[k].type # ForeignType
        /\ cropOutbox' = Append(cropOutbox,
              [type |-> ForeignType, croppedDataURLs |-> <<>>,
               error |-> NoError, req |-> 0])
        /\ UNCHANGED detectOutbox
  /\ UNCHANGED singleCropTool
  /\ UNCHANGED <<uiVars, hostVars, bitmaps, detectInbox, cropInbox,
                 cropTasks, contextFailures>>

InitTransport ==
  \/ InitCrop
  \/ \E pic \in UploadPictures :
       Posted("detect", [id |-> 1, pic |-> pic], 3, 3, 0)

NextTransport ==
  \/ ForeignMessage
  \/ DetectWorkerReceive
  \/ CropWorkerReceive
  \/ CropWorkerBlobReady
  \/ CropWorkerUrlReady
  \/ DispatchDetectResponse
  \/ DispatchCropResponse

SpecTransport == InitTransport /\ [][NextTransport]_vars

\* ---- GridTool with auto-padding left off, after the user has picked the
\* 2 x 2 preset: every grid the user can pick gives cells of at least one
\* pixel in every picture, so that no crop fails for its geometry
InitManual ==
  /\ Component(NoImage, 2, 2, FALSE, FALSE, TRUE, TRUE, 0, 0)
  /\ Idle

NextManual ==
  \/ \E pic \in UploadPictures : HandleFileUpload(pic)
  \/ ImageOnload
  \/ \E c \in 1..MaxGridChoice : SetColumns(c)
  \/ \E r \in 1..MaxGridChoice : SetRows(r)
  \/ \E k \in 1..MaxPresets : ApplyPreset(presets[k])
  \/ BitmapCreated
  \/ CropWorkerReceive
  \/ CropWorkerBlobReady
  \/ CropWorkerUrlReady
  \/ DispatchCropResponse

SpecManual == InitManual /\ [][NextManual]_vars

\* ---- SingleCropTool alone: pictures, pointer positions and ratios
\* drawn from bounded sets
ImageSizes ==
  {[width |-> 100, height |-> 100], [width |-> 200, height |-> 100],
   [width |-> 40, height |-> 40]}
MouseCoords == {0, 30, 50, 80, 100, 150}
RatioChoices == {r \in ratioPresets : r \in {<<1, 1>>, <<4, 3>>, <<9, 16>>, <<0, 1>>}}

InitSingle == Mounted(TRUE, TRUE) /\ Idle

NextSingle ==
  \/ \E img \in ImageSizes : SingleHandleFileUpload(img)
  \/ \E img \in ImageSizes : UseInitialImage(img)
  \/ SingleImageOnload
  \/ \E mouseX \in MouseCoords, mouseY \in MouseCoords : HandleMouseDown(mouseX, mouseY)
  \/ \E mouseX \in MouseCoords, mouseY \in MouseCoords : HandleMouseMove(mouseX, mouseY)
  \/ HandleMouseUp
  \/ \E ratio \in RatioChoices : HandleRatioChange(ratio)

SpecSingle == InitSingle /\ [][NextSingle]_vars

\* ================================================================ claims
Responses(outbox) == {outbox[k] : k \in 1..Len(outbox)}

\* the cell size a crop request asks for is positive
PositiveCells(c) ==
  /\ c.img.pic.W - c.padding * (c.cols - 1) > 0
  /\ c.img.pic.H - c.padding * (c.rows - 1) > 0

\* the rectangle of the cell at (row, col), from the grid geometry: cells
\* of (W - padding*(cols-1))/cols by (H - padding*(rows-1))/rows, laid out
\* with `padding` between neighbours
CellAt(c, row, col) ==
  [x |-> Rat(col * (c.img.pic.W + c.padding), c.cols),
   y |-> Rat(row * (c.img.pic.H + c.padding), c.rows),
   w |-> Rat(c.img.pic.W - c.padding * (c.cols - 1), c.cols),
   h |-> Rat(c.img.pic.H - c.padding * (c.rows - 1), c.rows)]

\* C1: for columns, rows >= 1 and padding >= 0 with positive cell width and
\* height, cropImage returns exactly columns*rows images, and image i is
\* the cell at row (i div columns), column (i mod columns).  (A response
\* that reports a missing drawing context is left aside.)
C1RowMajorComplete ==
  \A m \in Responses(cropOutbox) :
    LET c == calls[m.req]
    IN  PositiveCells(c) /\ m.error.message # ContextError(0).message =>
          /\ m.type = "crop-image-result"
          /\ Len(m.croppedDataURLs) = c.cols * c.rows
          /\ \A i \in 0..(c.cols * c.rows - 1) :
               m.croppedDataURLs[i + 1].src = CellAt(c, i \div c.cols, i % c.cols)

\* the rectangles a task has drawn so far, in drawing order
Drawn(t) == t.crops \o t.pending

\* C2: crop i copies the source rectangle with x = (i mod columns) *
\* (cellWidth + padding), y = (i div columns) * (cellHeight + padding) and
\* size (cellWidth, cellHeight), cellWidth = (W - padding*(columns-1)) /
\* columns, cellHeight = (H - padding*(rows-1)) / rows; for 300x300,
\* columns = rows = 3, padding = 15 every cell is 90x90, cell 0 is at (0, 0)
\* and cell 4 at (105, 105).
C2SourceRectangles ==
  \A t \in cropTasks :
    LET W == t.imageBitmap.W
        H == t.imageBitmap.H
        d == Drawn(t)
    IN  /\ \A k \in 1..Len(d) :
             LET r == d[k].src
                 col == (k - 1) % t.cols
                 row == (k - 1) \div t.cols
             IN  \* w = (W - padding*(cols-1)) / cols, h likewise
                 /\ r.w[1] * t.cols = (W - t.padding * (t.cols - 1)) * r.w[2]
                 /\ r.h[1] * t.rows = (H - t.padding * (t.rows - 1)) * r.h[2]
                 \* x = col * (w + padding), y = row * (h + padding)
                 /\ r.x[1] * r.w[2] = col * (r.w[1] + t.padding * r.w[2]) * r.x[2]
                 /\ r.y[1] * r.h[2] = row * (r.h[1] + t.padding * r.h[2]) * r.y[2]
        /\ (W = 300 /\ H = 300 /\ t.cols = 3 /\ t.rows = 3 /\ t.padding = 15) =>
             /\ \A k \in 1..Len(d) :
                  d[k].src.w = <<90, 1>> /\ d[k].src.h = <<90, 1>>
             /\ Len(d) >= 1 => d[1].src.x = <<0, 1>> /\ d[1].src.y = <<0, 1>>
             /\ Len(d) >= 5 => d[5].src.x = <<105, 1>> /\ d[5].src.y = <<105, 1>>

\* the 300x300, 3x3, padding 15 request has drawn its cell 4
C2Witness ==
  \E t \in cropTasks :
    /\ t.imageBitmap.W = 300 /\ t.imageBitmap.H = 300
    /\ t.cols = 3 /\ t.rows = 3 /\ t.padding = 15
    /\ Len(Drawn(t)) >= 5

\* a response that reports a configuration error naming the dimension
ConfigurationError(c) ==
  {"Invalid configuration: cell width" : x \in
      IF c.img.pic.W - c.padding * (c.cols - 1) <= 0 THEN {1} ELSE {}}
  \cup
  {"Invalid configuration: cell height" : x \in
      IF c.img.pic.H - c.padding * (c.rows - 1) <= 0 THEN {1} ELSE {}}

\* C3: when the cell width or height is <= 0 the crop fails with a
\* configuration error that names the invalid dimension (and returns no
\* images).
C3ConfigurationError ==
  \A m \in Responses(cropOutbox) :
    LET c == calls[m.req]
    IN  ~PositiveCells(c) =>
          /\ m.type = "crop-image-error"
          /\ m.croppedDataURLs = <<>>
          /\ m.error.message \in ConfigurationError(c)

\* C4: for the 300x300 white picture with 3x3 black tiles, 15px gutters
\* and a 15px border the detector answers 15.
C4ScenarioDetectsFifteen ==
  \A m \in Responses(detectOutbox) :
    (m.type = "detect-padding-result" /\ calls[m.req].img.pic = Scenario)
      => m.paddingSize = 15

\* C5: whenever a worker has answered a request, with a result or with an
\* error, the bitmap transferred with that request is closed.
C5BitmapClosed ==
  \A m \in Responses(detectOutbox) \cup Responses(cropOutbox) :
    bitmaps[m.req] = "closed"

\* C6: a message event settles only the call whose request it answers.
C6OwnResponse ==
  [][/\ (detectOutbox # <<>> /\ detectOutbox' = Tail(detectOutbox)) =>
          \A k \in 1..Len(detectListeners) :
            detectListeners[k] = Head(detectOutbox).req
     /\ (cropOutbox # <<>> /\ cropOutbox' = Tail(cropOutbox)) =>
          \A k \in 1..Len(cropListeners) :
            cropListeners[k] = Head(cropOutbox).req]_vars

\* the effect run that issued the request was cleaned up
Superseded(m) == m.req \in DOMAIN calls /\ ~calls[m.req].mounted

\* C7: the response to a request whose effect was cleaned up changes none
\* of paddingInfo, croppedImages, croppedDataURLs.
C7LateResponseIgnored ==
  [][/\ (detectOutbox # <<>> /\ detectOutbox' = Tail(detectOutbox)
           /\ Superseded(Head(detectOutbox))) =>
          UNCHANGED <<paddingInfo, croppedImages, croppedDataURLs>>
     /\ (cropOutbox # <<>> /\ cropOutbox' = Tail(cropOutbox)
           /\ Superseded(Head(cropOutbox))) =>
          UNCHANGED <<paddingInfo, croppedImages, croppedDataURLs>>]_vars

\* requests a worker has been sent and has not answered to the main thread
DetectInFlight == Len(detectInbox) + Len(detectOutbox)
CropInFlight == Len(cropInbox) + Cardinality(cropTasks) + Len(cropOutbox)

\* C8: each worker has at most one request in flight.
C8OneInFlight == DetectInFlight <= 1 /\ CropInFlight <= 1

\* C9: a worker works on one request at a time: it does not start on the
\* next message before the response to the previous one is posted.
C9OneAtATime == Cardinality(cropTasks) <= 1

\* the calls issued by the step
Issued(id) ==
  /\ id \in DOMAIN calls'
  /\ calls'[id].phase = "bitmap"
  /\ ~(id \in DOMAIN calls /\ calls[id].phase = "bitmap")

\* C10: with auto-padding on, a crop request is issued only when no
\* detection for its image is still under way, and it carries the padding
\* the detector finds for that image.
C10CropAfterDetect ==
  [][\A id \in DOMAIN calls' :
       (Issued(id) /\ calls'[id].kind = "crop" /\ calls'[id].auto) =>
         /\ ~\E d \in DOMAIN calls' :
               /\ calls'[d].kind = "detect"
               /\ calls'[d].img.id = calls'[id].img.id
               /\ calls'[d].phase \in {"bitmap", "posted"}
         /\ calls'[id].padding = detectPadding(calls'[id].img.pic)]_vars

\* the requests a worker holds: received or queued, and not yet answered
DetectHeld == {detectInbox[k].req : k \in 1..Len(detectInbox)}
CropHeld == {cropInbox[k].req : k \in 1..Len(cropInbox)} \cup {t.req : t \in cropTasks}

\* a response of the result variant, or of the error variant with the
\* message of an error the request can throw
ResultOrError(m, resultType, errorType, throwable) ==
  \/ m.type = resultType /\ m.error = NoError
  \/ m.type = errorType /\ m.error \in throwable

\* in a step, the requests that leave `held` are answered by exactly the
\* responses appended to `outbox`, one each
AnsweredOnce(held, heldNext, outbox, outboxNext, resultType, errorType, throwable) ==
  LET left == held \ heldNext
      grown == Len(outboxNext) > Len(outbox)
  IN  /\ Cardinality(left) <= 1
      /\ grown <=> left # {}
      /\ grown =>
           /\ outboxNext = Append(outbox, outboxNext[Len(outboxNext)])
           /\ left = {outboxNext[Len(outboxNext)].req}
           /\ ResultOrError(outboxNext[Len(outboxNext)], resultType,
                            errorType, throwable)

\* C11: a worker posts exactly one message for every request it received,
\* the result variant or the error variant carrying the message of the
\* error thrown; no request leaves a worker without its response.
C11ExactlyOneResponse ==
  [][/\ AnsweredOnce(DetectHeld, DetectHeld', detectOutbox, detectOutbox',
                     "detect-padding-result", "detect-padding-error",
                     {DetectContextError, ImageDataErrorMsg})
     /\ AnsweredOnce(CropHeld, CropHeld', cropOutbox, cropOutbox',
                     "crop-image-result", "crop-image-error",
                     {TypeErrorMsg, IndexSizeErrorMsg}
                       \cup {ContextError(i) : i \in 0..25})]_vars

\* the crop worker has answered one request with an error and the next
\* with a result
C11Witness ==
  /\ Len(cropOutbox) = 2
  /\ cropOutbox[1].type = "crop-image-error"
  /\ cropOutbox[2].type = "crop-image-result"
  /\ Len(cropOutbox[2].croppedDataURLs) >= 1

\* the call's request is posted and its promise is not settled
Pending(id) == id \in DOMAIN calls /\ calls[id].phase = "posted"
\* the worker has posted the response to the request
Responded(id) ==
  \E m \in Responses(detectOutbox) \cup Responses(cropOutbox) : m.req = id

LineWhite(p, w, h, dir, line, pos) ==
  IF dir = "v" THEN isWhite(p, w, h, pos, line) ELSE isWhite(p, w, h, line, pos)
\* the scanned dimension of a direction
LineLength(p, dir) == IF dir = "v" THEN SampleWidth(p) ELSE SampleHeight(p)

\* the first pixel of the white run that ends just before e
RECURSIVE RunStart(_, _, _, _, _, _)
RunStart(p, w, h, dir, line, e) ==
  IF e >= 1 /\ LineWhite(p, w, h, dir, line, e - 1)
  THEN RunStart(p, w, h, dir, line, e - 1) ELSE e

\* the white runs of the picture's six scan lines that are followed by a
\* non-white pixel of the line: direction, number of the scan line, first
\* pixel s and the non-white pixel e that ends the run
ClosedRuns(p) ==
  LET w == SampleWidth(p)
      h == SampleHeight(p)
      lines == [dir \in {"v", "h"} |->
                  IF dir = "v" THEN ScanLines(h) ELSE ScanLines(w)]
      len == [dir \in {"v", "h"} |-> IF dir = "v" THEN w ELSE h]
  IN  {[dir |-> x[1], k |-> x[2],
        s |-> RunStart(p, w, h, x[1], lines[x[1]][x[2]], x[3]), e |-> x[3]] :
         x \in {y \in {"v", "h"} \X (1..3) \X (1..Max(w, h)) :
                  /\ y[3] < len[y[1]]
                  /\ ~LineWhite(p, w, h, y[1], lines[y[1]][y[2]], y[3])
                  /\ LineWhite(p, w, h, y[1], lines[y[1]][y[2]], y[3] - 1)}}

\* the length the scan loop measures for a closed run: the loop starts at
\* pixel 1, and its last pixel is len - 2
ScannedLength(r) == r.e - Max(r.s, 1)
\* the closed runs the scan loops record as candidates
Recorded(p) ==
  {r \in ClosedRuns(p) :
     /\ r.e <= LineLength(p, r.dir) - 2
     /\ GapAccepted(ScannedLength(r), LineLength(p, r.dir))}
\* how many of the runs round to v
Occurrences(runs, v) ==
  Cardinality({r \in runs : RoundToTwo(ScannedLength(r)) = v})

\* the picture a response answers for
PictureOf(m) == calls[m.req].img.pic
DetectResults == {m \in Responses(detectOutbox) : m.type = "detect-padding-result"}

\* C13: the detector answers with the rounded length that occurs most
\* often among all the runs recorded on the six scan lines, each run
\* counted as often as it occurs (pictures sampled at scale 1).
C13MultisetMode ==
  \A m \in DetectResults :
    LET runs == Recorded(PictureOf(m))
    IN  ScaleOf(PictureOf(m)) = Int2Rat(1) =>
          IF runs = {} THEN m.paddingSize = 0
          ELSE \A r \in runs :
                 Occurrences(runs, m.paddingSize)
                   >= Occurrences(runs, RoundToTwo(ScannedLength(r)))

\* the closed runs of a direction that lie strictly inside their scan
\* line: a non-white pixel right before and right after
InteriorLengths(p, dir) ==
  {r.e - r.s : r \in {q \in ClosedRuns(p) : q.dir = dir /\ q.s >= 1}}

\* C14: every candidate the scans record is the length of a white run with
\* a non-white pixel right before it and right after it; a run touching
\* the first or the last pixel of its scan line is never recorded.
C14InteriorRunsOnly ==
  \A m \in DetectResults :
    LET p == PictureOf(m)
        vGaps == detectVerticalGaps(p, SampleWidth(p), SampleHeight(p))
        hGaps == detectHorizontalGaps(p, SampleWidth(p), SampleHeight(p))
    IN  /\ \A k \in 1..Len(vGaps) : vGaps[k] \in InteriorLengths(p, "v")
        /\ \A k \in 1..Len(hGaps) : hGaps[k] \in InteriorLengths(p, "h")

\* not white for the detector: a channel below the threshold
NonWhite(colour) == \E k \in 1..3 : colour[k] < WHITE_THRESHOLD

\* a picture of at most 900px of solid non-white tiles, at least two in a
\* row or in a column, with pure white gutters of one thickness below 20%
\* of both dimensions between them (and no border)
UniformGutters(p) ==
  /\ p.W >= 1 /\ p.H >= 1 /\ p.W <= maxScanSize /\ p.H <= maxScanSize
  /\ p.bg = White /\ NonWhite(p.tile)
  /\ p.border = 0 /\ p.gutter >= 1 /\ p.rowGutter = p.gutter
  /\ p.tcols >= 2 \/ p.trows >= 2
  /\ 5 * p.gutter < p.W /\ 5 * p.gutter < p.H

\* the detection of originalImage was answered with a result and GridTool
\* has handled the answer
DetectionHandled ==
  /\ detectInbox = <<>> /\ detectOutbox = <<>>
  /\ workerError = NoError

\* C15: for a picture of tiles with uniform gutters g the detector answers
\* g up to one pixel, and GridTool records the answer with detected = TRUE.
C15GutterRoundTrip ==
  UniformGutters(originalImage.pic) =>
    /\ \A m \in DetectResults :
         Abs(m.paddingSize - originalImage.pic.gutter) <= 1
    /\ DetectionHandled =>
         /\ paddingInfo.detected
         /\ Abs(paddingInfo.size - originalImage.pic.gutter) <= 1

\* a picture of one colour, or a picture without a white pixel
NoGutter(p) ==
  \/ p.tcols = 1 /\ p.trows = 1 /\ p.border = 0
  \/ NonWhite(p.tile) /\ NonWhite(p.bg)

\* C16: for a picture of one colour, or one without a white pixel, no
\* candidate is recorded and the detector answers with the result 0, not
\* with an error (a missing drawing context aside); GridTool then holds
\* size 0 with detected = TRUE.
C16NoGutterIsZero ==
  NoGutter(originalImage.pic) =>
    /\ \A m \in Responses(detectOutbox) :
         \/ /\ m.type = "detect-padding-result"
            /\ m.paddingSize = 0
            /\ Recorded(originalImage.pic) = {}
         \/ m.error = DetectContextError
    /\ DetectionHandled =>
         paddingInfo = [size |-> 0, detected |-> TRUE]

\* the candidates in tally order: the column direction first
TallyOrder(p) ==
  detectVerticalGaps(p, SampleWidth(p), SampleHeight(p))
    \o detectHorizontalGaps(p, SampleWidth(p), SampleHeight(p))
\* how often the rounded value v is tallied, and where it is met first
TalliedTimes(gaps, v) == Cardinality({k \in 1..Len(gaps) : RoundToTwo(gaps[k]) = v})
FirstMet(gaps, v) ==
  CHOOSE k \in 1..Len(gaps) :
    /\ RoundToTwo(gaps[k]) = v
    /\ \A j \in 1..(k - 1) : RoundToTwo(gaps[j]) # v

\* C17: among the rounded values tallied most often the detector answers
\* with the one met first in tally order, column-direction candidates
\* before row-direction candidates (pictures sampled at scale 1).
C17FirstOfTheMostFrequent ==
  \A m \in DetectResults :
    LET gaps == TallyOrder(PictureOf(m))
    IN  (ScaleOf(PictureOf(m)) = Int2Rat(1) /\ gaps # <<>>) =>
          /\ TalliedTimes(gaps, m.paddingSize) >= 1
          /\ \A j \in 1..Len(gaps) :
               LET w == RoundToTwo(gaps[j])
               IN  \/ TalliedTimes(gaps, w) < TalliedTimes(gaps, m.paddingSize)
                   \/ /\ TalliedTimes(gaps, w) = TalliedTimes(gaps, m.paddingSize)
                      /\ FirstMet(gaps, m.paddingSize) <= FirstMet(gaps, w)

\* the detector has answered for a picture whose first column-direction
\* candidate and first row-direction candidate round to different values
\* tallied equally often
C17Witness ==
  \E m \in DetectResults :
    LET p == PictureOf(m)
        v == detectVerticalGaps(p, SampleWidth(p), SampleHeight(p))
        h == detectHorizontalGaps(p, SampleWidth(p), SampleHeight(p))
    IN  /\ Len(v) = 1 /\ Len(h) = 1
        /\ RoundToTwo(v[1]) # RoundToTwo(h[1])
        /\ m.paddingSize = RoundToTwo(v[1])

\* the candidates of a direction, as a set
Candidates(p, dir) ==
  LET gaps == IF dir = "v"
              THEN detectVerticalGaps(p, SampleWidth(p), SampleHeight(p))
              ELSE detectHorizontalGaps(p, SampleWidth(p), SampleHeight(p))
  IN  {gaps[k] : k \in 1..Len(gaps)}

DrawnFor ==
  {<<calls[t.req], Drawn(t)>> : t \in cropTasks}
    \cup {<<calls[m.req], m.croppedDataURLs>> : m \in Responses(cropOutbox)}

\* C19: with a positive cell size every rectangle cropImage computes lies
\* inside the image: x >= 0, y >= 0, width > 0, height > 0, x + width <= W,
\* y + height <= H; the right edge of the last column is W and the bottom
\* edge of the last row is H.  (Cell arithmetic is exact here: the rounding
\* of doubles, of the order of 1e-15 pixels, is left aside.)
C19CellsInsideImage ==
  \A d \in DrawnFor :
    LET c == d[1]
        W == Int2Rat(c.img.pic.W)
        H == Int2Rat(c.img.pic.H)
    IN  PositiveCells(c) =>
          \A k \in 1..Len(d[2]) :
            LET r == d[2][k].src
                col == (k - 1) % c.cols
                row == (k - 1) \div c.cols
            IN  /\ RLeq(Int2Rat(0), r.x) /\ RLeq(Int2Rat(0), r.y)
                /\ RLess(Int2Rat(0), r.w) /\ RLess(Int2Rat(0), r.h)
                /\ RLeq(RAdd(r.x, r.w), W) /\ RLeq(RAdd(r.y, r.h), H)
                /\ col = c.cols - 1 => RAdd(r.x, r.w) = W
                /\ row = c.rows - 1 => RAdd(r.y, r.h) = H

\* a request with padding, at least 2x2 cells and a cell width that is no
\* whole number was answered with all its cells
C19Witness ==
  \E d \in DrawnFor :
    /\ d[1].padding >= 1 /\ d[1].cols >= 2 /\ d[1].rows >= 2
    /\ Len(d[2]) = d[1].cols * d[1].rows
    /\ d[2][1].src.w[2] # 1

\* two rectangles share no area
Apart(a, b) ==
  \/ RLeq(RAdd(a.x, a.w), b.x) \/ RLeq(RAdd(b.x, b.w), a.x)
  \/ RLeq(RAdd(a.y, a.h), b.y) \/ RLeq(RAdd(b.y, b.h), a.y)

\* C20: the cells of a request all have one size and no two overlap; a
\* cell starts exactly `padding` pixels after its left neighbour ends and
\* `padding` pixels below its upper neighbour; with padding = 0 the size
\* is (W/columns, H/rows), the first column starts at 0 and the last ends
\* at W, the first row starts at 0 and the last ends at H, so the cells
\* cover the image without a gap.
C20Tiling ==
  \A d \in DrawnFor :
    LET c == d[1]
        cells == d[2]
        n == Len(cells)
        pad == Int2Rat(c.padding)
    IN  PositiveCells(c) =>
          /\ \A k \in 1..n : cells[k].src.w = cells[1].src.w
                             /\ cells[k].src.h = cells[1].src.h
          /\ \A j \in 1..n : \A k \in (j + 1)..n : Apart(cells[j].src, cells[k].src)
          /\ \A k \in 1..n :
               LET r == cells[k].src
                   col == (k - 1) % c.cols
                   row == (k - 1) \div c.cols
               IN  /\ (col < c.cols - 1 /\ k + 1 <= n) =>
                         /\ cells[k + 1].src.x = RAdd(RAdd(r.x, r.w), pad)
                         /\ cells[k + 1].src.y = r.y
                   /\ (row < c.rows - 1 /\ k + c.cols <= n) =>
                         /\ cells[k + c.cols].src.y = RAdd(RAdd(r.y, r.h), pad)
                         /\ cells[k + c.cols].src.x = r.x
                   /\ c.padding = 0 =>
                         /\ r.w = Rat(c.img.pic.W, c.cols)
                         /\ r.h = Rat(c.img.pic.H, c.rows)
                         /\ col = 0 => r.x = Int2Rat(0)
                         /\ row = 0 => r.y = Int2Rat(0)
                         /\ col = c.cols - 1 => RAdd(r.x, r.w) = Int2Rat(c.img.pic.W)
                         /\ row = c.rows - 1 => RAdd(r.y, r.h) = Int2Rat(c.img.pic.H)

\* a request with padding 0 for 3 columns and 2 rows of a 7px wide image
\* was answered with all its cells
C20Witness ==
  \E m \in Responses(cropOutbox) :
    /\ calls[m.req].padding = 0 /\ calls[m.req].img.pic.W = 7
    /\ calls[m.req].cols = 3 /\ calls[m.req].rows = 2
    /\ Len(m.croppedDataURLs) = 6

\* nothing was sent to a worker and nothing came back from one
NothingSent ==
  /\ calls = <<>> /\ bitmaps = <<>>
  /\ detectListeners = <<>> /\ cropListeners = <<>>
  /\ detectInbox = <<>> /\ cropInbox = <<>> /\ cropTasks = {}
  /\ detectOutbox = <<>> /\ cropOutbox = <<>>

\* C21: without OffscreenCanvas GridTool starts with the capability error
\* in workerError and offscreenCanvasSupported false, and with no worker;
\* whatever the user does afterwards, no worker exists, no detect or crop
\* request is sent, no padding is detected and no image is cropped, and the
\* capability error is not reported a second time.
C21NoWorkerWithoutOffscreenCanvas ==
  /\ ~offscreenCanvasSupported => workerError = OffscreenCanvasMissing
  /\ [](~offscreenCanvasSupported =>
          /\ detectPaddingWorker = "null" /\ cropImageWorker = "null"
          /\ NothingSent
          /\ ~paddingInfo.detected
          /\ croppedImages = <<>> /\ croppedDataURLs = <<>>)
  /\ [][~offscreenCanvasSupported =>
          /\ ~offscreenCanvasSupported'
          /\ workerError' = OffscreenCanvasMissing
                => workerError = OffscreenCanvasMissing]_vars

\* without OffscreenCanvas the user has loaded an image, switched
\* auto-padding on and dismissed the error
C21Witness ==
  /\ ~offscreenCanvasSupported
  /\ originalImage # NoImage
  /\ autoPadding
  /\ workerError = NoError

\* the requests the workers hold, each with the picture of its bitmap
HeldRequests ==
  {<<detectInbox[k].req, detectInbox[k].imageBitmap>> : k \in 1..Len(detectInbox)}
    \cup {<<cropInbox[k].req, cropInbox[k].imageBitmap>> : k \in 1..Len(cropInbox)}
    \cup {<<t.req, t.imageBitmap>> : t \in cropTasks}

FirstCrops(c) ==
  [k \in 1..(c.cols * c.rows) |->
     LET r == SourceRect(c.img.pic.W, c.img.pic.H, c.cols, c.rows, c.padding, k - 1)
     IN  [of |-> c.img.pic, src |-> r, canvas |-> CanvasSize(r.w, r.h)]]

\* the step dispatches the response m of the crop worker
CropDispatched(m) ==
  cropOutbox # <<>> /\ m = Head(cropOutbox) /\ cropOutbox' = Tail(cropOutbox)

UnknownDispatched(outbox, outboxNext) ==
  /\ outbox # <<>>
  /\ outboxNext = Tail(outbox)
  /\ Heard(Head(outbox), <<0>>) = <<>>

\* after the step no call of `listeners` is unsettled and none listens
RejectedAll(listeners, listenersNext) ==
  /\ listenersNext = <<>>
  /\ \A k \in 1..Len(listeners) :
       listeners[k] \in DOMAIN calls' => calls'[listeners[k]].phase = "rejected"

Winner(p) == MostFrequent(Tally(TallyOrder(p), 1, <<>>), 1, 0, 0)

\* C25: for a picture whose longer side is at most 900 the scale is 1, the
\* sample has the picture's size and the detector answers with the winning
\* rounded length unchanged; for a longer picture the longer side of the
\* sample is 900 and the answer is the winning value divided by the scale
\* 900 / max(width, height), rounded to a whole number.
C25ScaledResult ==
  \A m \in DetectResults :
    LET p == PictureOf(m)
        longer == Max(p.W, p.H)
    IN  IF longer <= maxScanSize
        THEN /\ ScaleOf(p) = Int2Rat(1)
             /\ SampleWidth(p) = p.W /\ SampleHeight(p) = p.H
             /\ m.paddingSize = Winner(p)
        ELSE /\ ScaleOf(p) = Rat(maxScanSize, longer)
             /\ Max(SampleWidth(p), SampleHeight(p)) = maxScanSize
             /\ 2 * Abs(maxScanSize * m.paddingSize - longer * Winner(p))
                  <= maxScanSize

\* no upload and no request is under way, no response waits for its
\* dispatch
Quiescent == Backlog = 0

\* the padding in effect: the one the detector finds for the current
\* image when auto-padding is on, 0 otherwise
EffectivePadding ==
  IF autoPadding THEN detectPadding(originalImage.pic) ELSE 0

\* the cells of the current image under the current grid and padding
CurrentPartition ==
  FirstCrops([img |-> originalImage, cols |-> columns, rows |-> rows,
              padding |-> EffectivePadding])

\* C26: when nothing is under way any more and no request has failed,
\* croppedImages holds columns * rows images, the cells of the current
\* image under the current columns, rows and effective padding.
C26SettledPartition ==
  (Quiescent /\ originalImage # NoImage /\ contextFailures = 0
     /\ workerError = NoError) =>
    /\ Len(croppedImages) = columns * rows
    /\ croppedImages = CurrentPartition
    /\ croppedDataURLs = CurrentPartition

\* the detect calls of effect runs that were not cleaned up
MountedDetect(cs) ==
  {id \in DOMAIN cs : cs[id].kind = "detect" /\ cs[id].mounted}

\* the step hands a detect error to the call of the current effect run
DetectionFails(m) ==
  /\ detectOutbox # <<>> /\ m = Head(detectOutbox)
  /\ detectOutbox' = Tail(detectOutbox)
  /\ m.type = "detect-padding-error"
  /\ autoPadding
  /\ \E k \in 1..Len(detectListeners) :
       detectListeners[k] \in MountedDetect(calls)

\* auto-padding is on and the detection for the current image has failed:
\* no padding is detected and the call of the current effect run is
\* settled
DetectionFailed ==
  /\ autoPadding /\ originalImage # NoImage
  /\ detectPaddingWorker # "null"
  /\ ~paddingInfo.detected
  /\ \A id \in MountedDetect(calls) : calls[id].phase = "rejected"

C28BusyFlag ==
  /\ (DetectInFlight + CropInFlight > 0) => isProcessing
  /\ Quiescent => ~isProcessing

\* C29: for every image size, columns, rows and padding the worker's
\* cropImage computes, crop by crop, the source rectangle that cropImage of
\* the earlier GridTool computes, and with padding 0 both compute the
\* rectangle of the unpadded cropper of App.tsx: x = col*W/cols,
\* y = row*H/rows, size W/cols by H/rows.
C29SameRectangles ==
  \A t \in cropTasks :
    LET W == t.imageBitmap.W
        H == t.imageBitmap.H
        d == Drawn(t)
    IN  /\ \A k \in 1..Len(d) :
             d[k].src = GridToolQuad(W, H, t.cols, t.rows, t.padding, k - 1)
        /\ \A i \in 0..(t.cols * t.rows - 1) :
             /\ SourceRect(W, H, t.cols, t.rows, t.padding, i)
                  = GridToolQuad(W, H, t.cols, t.rows, t.padding, i)
             /\ t.padding = 0 =>
                  /\ SourceRect(W, H, t.cols, t.rows, 0, i)
                       = AppQuad(W, H, t.cols, t.rows, i)
                  /\ GridToolQuad(W, H, t.cols, t.rows, 0, i)
                       = AppQuad(W, H, t.cols, t.rows, i)
                  /\ AppQuad(W, H, t.cols, t.rows, i)
                       = [x |-> Rat((i % t.cols) * W, t.cols),
                          y |-> Rat((i \div t.cols) * H, t.rows),
                          w |-> Rat(W, t.cols), h |-> Rat(H, t.rows)]

\* a request with padding and more than one column and row has drawn its
\* last rectangle
C29Witness ==
  \E t \in cropTasks :
    /\ t.padding > 0 /\ t.cols > 1 /\ t.rows > 1
    /\ Len(Drawn(t)) = t.cols * t.rows
    /\ Drawn(t)[t.cols * t.rows].src.x # <<0, 1>>

\* C30: whenever SingleCropTool holds a picture, after any sequence of
\* image loads, mouse downs, moves and ups and ratio changes, the crop box
\* lies inside it: x >= 0, y >= 0, x + width <= image width and
\* y + height <= image height.
C30CropBoxInside ==
  LET b == singleCropTool.cropBox
      img == singleCropTool.originalImage
  IN  img # NoElement =>
        /\ RLeq(<<0, 1>>, b.x)
        /\ RLeq(<<0, 1>>, b.y)
        /\ RLeq(RAdd(b.x, b.width), Int2Rat(img.width))
        /\ RLeq(RAdd(b.y, b.height), Int2Rat(img.height))

====
